---- MODULE Spec2Model ----
(***************************************************************************)
(* Model of the order-fulfillment saga of temporal-order-system:           *)
(* OrderWorkflow (workflows/order_workflow.go), its signal listener        *)
(* coroutine, the PaymentWorkflow child workflow and the activities they   *)
(* dispatch.  Durations are in milliseconds.                               *)
(*                                                                         *)
(* Scheduling: the workflow code runs on one deterministic dispatcher.     *)
(* The main coroutine runs until it blocks on a future; the listener       *)
(* coroutine only runs while the main coroutine is blocked.  Every action  *)
(* below is therefore one uninterrupted run of one coroutine between two   *)
(* suspension points.                                                      *)
(***************************************************************************)
EXTENDS Integers, Sequences, FiniteSets, TLC

\* ------------------------------------------------------------------ bounds
MaxSignals == 2
MaxUnlimitedAttempts == 2

\* --------------------------------------------------------------- constants
DefaultVersion == -1
AuthorizationLimit == 9999
\* Amounts are float64 in the code; the model counts them in hundredths,
\* the precision the code prints them with (%.2f).
Cents == 100
IDPrefixLen == 8

OrderStatusPending == "PENDING"
OrderStatusValidated == "VALIDATED"
OrderStatusProcessing == "PROCESSING"
OrderStatusCompleted == "COMPLETED"
OrderStatusCancelled == "CANCELLED"
OrderStatusExpedited == "EXPEDITED"
OrderStatusFailed == "FAILED"

OrderStatuses ==
  { OrderStatusPending, OrderStatusValidated, OrderStatusProcessing,
    OrderStatusCompleted, OrderStatusCancelled, OrderStatusExpedited,
    OrderStatusFailed }

\* ------------------------------------------------------- activity options
\* A missing RetryPolicy is the server default: unlimited attempts
\* (MaximumAttempts = 0), 1s initial interval, coefficient 2, 100s maximum.
DefaultRetry ==
  [ InitialInterval |-> 1000, BackoffCoefficient |-> 2,
    MaximumInterval |-> 100000, MaximumAttempts |-> 0 ]

StandardRetry ==
  [ InitialInterval |-> 1000, BackoffCoefficient |-> 2,
    MaximumInterval |-> 10000, MaximumAttempts |-> 3 ]

ExpeditedRetry ==
  [ InitialInterval |-> 500, BackoffCoefficient |-> 2,
    MaximumInterval |-> 5000, MaximumAttempts |-> 2 ]

activityOptions ==
  [ StartToCloseTimeout |-> 30000, HeartbeatTimeout |-> 5000,
    RetryPolicy |-> StandardRetry ]

validateExpeditedOptions ==
  [ StartToCloseTimeout |-> 15000, HeartbeatTimeout |-> 3000,
    RetryPolicy |-> ExpeditedRetry ]

processExpeditedOptions ==
  [ StartToCloseTimeout |-> 15000, HeartbeatTimeout |-> 3000,
    RetryPolicy |-> DefaultRetry ]

rollbackOptions ==
  [ StartToCloseTimeout |-> 10000, HeartbeatTimeout |-> 0,
    RetryPolicy |-> DefaultRetry ]

paymentActivityOptions ==
  [ StartToCloseTimeout |-> 20000, HeartbeatTimeout |-> 5000,
    RetryPolicy |-> StandardRetry ]

voidOptions ==
  [ StartToCloseTimeout |-> 10000, HeartbeatTimeout |-> 0,
    RetryPolicy |-> DefaultRetry ]

\* ------------------------------------------------------------------ orders
LongID == << "o", "r", "d", "e", "r", "-", "0", "0", "1" >>
ShortID == << "o", "7" >>

OrderIDs == { LongID, ShortID }
Amounts ==
  { -100 * Cents, 0, 2500 * Cents, 9999 * Cents, 10000 * Cents }
ItemLists ==
  { << >>,
    << [Quantity |-> 2, Price |-> 1000 * Cents],
       [Quantity |-> 1, Price |-> 500 * Cents] >>,
    << [Quantity |-> 1, Price |-> 10000 * Cents] >> }

Orders == [ ID : OrderIDs, Amount : Amounts, Items : ItemLists ]

NoTask == [ name |-> "none", arg |-> << >>, attempt |-> 0 ]
NoResult == << "running" >>
Success == << >>
NoID == << >>
NoMarker == << >>
NoError == << >>
NoReply == << >>
NoOutcome ==
  [ name |-> "none", ok |-> FALSE, attempts |-> 0, err |-> << >>,
    value |-> << >>, policy |-> DefaultRetry, allOk |-> TRUE ]

VARIABLES
  order,        \* the Order passed to OrderWorkflow
  marker,       \* version marker recorded in the history, << >> before
  v,            \* local v of OrderWorkflow
  pc,           \* position of the main coroutine of OrderWorkflow
  state,        \* models.WorkflowState
  cancelled,    \* local flag of OrderWorkflow
  expedited,    \* local flag of OrderWorkflow
  listener,     \* position of the signal handler coroutine
  cancelChan,   \* signals buffered in the cancel channel
  expediteChan, \* signals buffered in the expedite channel
  sent,         \* signals sent so far
  task,         \* the activity in flight, with its attempt number
  calls,        \* activities dispatched so far, in order
  ppc,          \* position of PaymentWorkflow
  authorizationID,
  transactionID,
  paymentResult,\* what PaymentWorkflow returned to its parent
  err,          \* local err of OrderWorkflow, wrapped for its return
  result,       \* what OrderWorkflow returned
  cancelledAt,  \* where the main coroutine stood when Cancel was handled
  lastOutcome,  \* how the last activity future resolved, after how many
                \* attempts and under which policy; allOk: so did all before
  now,          \* workflow.Now: logical time of the current workflow task
  queryReply    \* the answer to the state query just issued, << >> if the
                \* last event was no query

vars ==
  << order, marker, v, pc, state, cancelled, expedited, listener, cancelChan,
     expediteChan, sent, task, calls, ppc, authorizationID, transactionID,
     paymentResult, err, result, cancelledAt, lastOutcome, now, queryReply >>

\* ------------------------------------------------------------- activities
RECURSIVE SumItems(_)
SumItems(items) ==
  IF items = << >> THEN 0
  ELSE LET item == Head(items)
       IN item.Price * item.Quantity + SumItems(Tail(items))

\* Each activity is the result of one attempt that runs to its end: a value
\* or an error.  Errors are cause chains, outermost message first.
Ok(value) == [ ok |-> TRUE, value |-> value, err |-> NoError ]
Fail(cause) == [ ok |-> FALSE, value |-> NoID, err |-> cause ]

\* Strings the code builds or cuts are sequences of characters.
Digits == << "0", "1", "2", "3", "4", "5", "6", "7", "8", "9" >>

\* fmt's %d of a non-negative integer.
RECURSIVE Itoa(_)
Itoa(n) ==
  IF n < 10 THEN << Digits[n + 1] >>
  ELSE Itoa(n \div 10) \o << Digits[(n % 10) + 1] >>

AuthPrefix == << "A", "U", "T", "H", "-" >>
TxnPrefix == << "T", "X", "N", "-" >>
RefundPrefix == << "R", "E", "F", "U", "N", "D", "-" >>

\* The documented rule of the validation service: amounts above 0 and
\* below 10,000 are valid.
ValidationLimit == 10000

ValidationServiceAccepts(amount) ==
  amount > 0 /\ amount < ValidationLimit * Cents

\* The request ValidateOrder builds: method, path, header and JSON body.
ValidationRequest(o) ==
  [ Method |-> "POST", Path |-> "/validate",
    ContentType |-> "application/json",
    OrderID |-> o.ID, Amount |-> o.Amount ]

\* What the validation service can answer to one request: no answer at all
\* (StatusCode 0: httpClient.Do fails), a status other than 200 with some
\* body, or 200 with a body that decodes to a ValidationResponse or not.
ServiceAnswers ==
  { [ StatusCode |-> 200, Decodable |-> TRUE, Valid |-> TRUE,
      Message |-> "Order validated successfully" ],
    [ StatusCode |-> 200, Decodable |-> TRUE, Valid |-> FALSE,
      Message |-> "Order amount exceeds limit" ],
    [ StatusCode |-> 200, Decodable |-> FALSE, Valid |-> FALSE,
      Message |-> "<html>" ],
    [ StatusCode |-> 500, Decodable |-> FALSE, Valid |-> FALSE,
      Message |-> "Internal Server Error" ],
    [ StatusCode |-> 502, Decodable |-> TRUE, Valid |-> TRUE,
      Message |-> "Bad Gateway" ],
    [ StatusCode |-> 0, Decodable |-> FALSE, Valid |-> FALSE,
      Message |-> "" ] }

\* fmt's "status %d" for the codes above.
StatusText(code) ==
  CASE code = 500 -> "status 500"
    [] code = 502 -> "status 502"
    [] OTHER -> "status"

\* ValidateOrder trusting the body whatever the status code.
ValidateOrderAnyStatus(o, answer) ==
  IF answer.StatusCode = 0
    THEN Fail(<< "failed to call validation service" >>)
  ELSE IF ~answer.Decodable
    THEN Fail(<< "failed to decode validation response" >>)
  ELSE IF ~answer.Valid
    THEN Fail(<< "order validation failed", answer.Message >>)
  ELSE Ok(NoID)

\* The answer of the validation service is an input of the attempt.
ValidateOrder(o, answer) ==
  IF answer.StatusCode = 0
    THEN Fail(<< "failed to call validation service" >>)
  ELSE IF answer.StatusCode # 200
    THEN Fail(<< "validation service returned", StatusText(answer.StatusCode),
                 answer.Message >>)
  ELSE IF ~answer.Decodable
    THEN Fail(<< "failed to decode validation response" >>)
  ELSE IF ~answer.Valid
    THEN Fail(<< "order validation failed", answer.Message >>)
  ELSE Ok(NoID)

AuthorizePayment(o, attempt) ==
  IF o.Amount <= 0 THEN Fail(<< "invalid payment amount" >>)
  ELSE IF o.Amount > AuthorizationLimit * Cents
    THEN Fail(<< "payment amount exceeds authorization limit" >>)
  ELSE IF Len(o.ID) < IDPrefixLen
    THEN Fail(<< "panic: slice bounds out of range" >>)
  ELSE Ok(AuthPrefix \o SubSeq(o.ID, 1, IDPrefixLen) \o << "-" >>
            \o Itoa(attempt))

\* CapturePayment handing the authorization id back as the transaction id.
CapturePaymentEchoing(o, authID, attempt) ==
  IF authID = NoID THEN Fail(<< "invalid authorization ID" >>)
  ELSE Ok(authID)

CapturePayment(o, authID, attempt) ==
  IF authID = NoID THEN Fail(<< "invalid authorization ID" >>)
  ELSE IF Len(o.ID) < IDPrefixLen
    THEN Fail(<< "panic: slice bounds out of range" >>)
  ELSE Ok(TxnPrefix \o SubSeq(o.ID, 1, IDPrefixLen) \o << "-" >>
            \o Itoa(attempt))

VoidAuthorization(authID) == Ok(NoID)

\* RefundPayment rejecting amounts that are not positive.
RefundPaymentChecked(txnID, amount, attempt) ==
  IF amount <= 0 THEN Fail(<< "invalid refund amount" >>)
  ELSE Ok(RefundPrefix \o txnID \o << "-" >> \o Itoa(attempt))

\* transactionID[4:12] when the id is longer than 12, else the whole id.
RefundPayment(txnID, amount, attempt) ==
  LET txnIDPart == IF Len(txnID) > 12
                   THEN SubSeq(txnID, 5, 12)
                   ELSE txnID
  IN Ok(RefundPrefix \o txnIDPart \o << "-" >> \o Itoa(attempt))

ProcessOrder(o) ==
  IF SumItems(o.Items) # o.Amount
    THEN Fail(<< "order amount mismatch" >>)
  ELSE Ok(NoID)

NotifyCustomer(o, message) == Ok(NoID)

RollbackOrder(o) == Ok(NoID)

\* What the current attempt of the task in flight can return: the
\* activity's own result, or the context error when the attempt is cut off
\* (timeout, missed heartbeat, worker loss).
RunActivity(t) ==
  CASE t.name = "ValidateOrder" ->
         { ValidateOrder(order, answer) : answer \in ServiceAnswers }
    [] t.name = "AuthorizePayment" -> { AuthorizePayment(order, t.attempt) }
    [] t.name = "CapturePayment" -> { CapturePayment(order, t.arg, t.attempt) }
    [] t.name = "VoidAuthorization" -> { VoidAuthorization(t.arg) }
    [] t.name = "RefundPayment" ->
         { RefundPayment(t.arg.TransactionID, t.arg.Amount, t.attempt) }
    [] t.name = "ProcessOrder" -> { ProcessOrder(order) }
    [] t.name = "NotifyCustomer" -> { NotifyCustomer(order, t.arg) }
    [] t.name = "RollbackOrder" -> { RollbackOrder(order) }

AttemptResults(t) ==
  RunActivity(t) \cup { Fail(<< "context deadline exceeded" >>) }

\* ------------------------------------------------------------ retry engine
Unlimited(t) == t.opts.RetryPolicy.MaximumAttempts = 0

\* Exhausted giving up after the first attempt.
ExhaustedAtOnce(t) == TRUE

Exhausted(t) ==
  /\ ~Unlimited(t)
  /\ t.attempt >= t.opts.RetryPolicy.MaximumAttempts

\* The results the activity's future can resolve to at this attempt: a
\* success at once, a failure only when no attempt is left.
FutureResults(t) ==
  { r \in AttemptResults(t) : r.ok \/ Exhausted(t) }

\* Future.Get returns r for the task in flight.
Completes(r) ==
  lastOutcome' = [ name |-> task.name, ok |-> r.ok,
                   attempts |-> task.attempt, err |-> r.err,
                   value |-> r.value, policy |-> task.opts.RetryPolicy,
                   allOk |-> lastOutcome.allOk /\ r.ok ]

\* A failed attempt with attempts left is retried by the server; no
\* workflow code runs.  The attempts of a task without a ceiling are
\* numbered modulo MaxUnlimitedAttempts: nothing reads the number of such
\* a task.
RetryActivity ==
  /\ task.name # "none"
  /\ queryReply' = NoReply
  /\ UNCHANGED lastOutcome
  /\ ~Exhausted(task)
  /\ \E r \in AttemptResults(task) : ~r.ok
  /\ task' = [ task EXCEPT !.attempt =
                 IF Unlimited(task) THEN (@ % MaxUnlimitedAttempts) + 1
                 ELSE @ + 1 ]
  /\ UNCHANGED << order, marker, v, pc, state, cancelled, expedited, listener,
                  cancelChan, expediteChan, sent, calls, ppc, authorizationID,
                  transactionID, paymentResult, err, result, cancelledAt, now >>

\* workflow.ExecuteActivity(ctx, act, arg)
ExecuteActivity(name, opts, arg) ==
  /\ task' = [ name |-> name, opts |-> opts, arg |-> arg, attempt |-> 1 ]
  /\ calls' = Append(calls, [ name |-> name, opts |-> opts, arg |-> arg ])

\* --------------------------------------------------------- version marker
\* workflow.GetVersion(ctx, changeID, minSupported, maxSupported): the
\* recorded marker if there is one, else maxSupported, which it records.
GetVersion(recorded, minSupported, maxSupported) ==
  IF recorded = NoMarker THEN maxSupported ELSE recorded[1]

\* The histories a process can run against: a first execution (no marker
\* yet), or one whose marker was recorded earlier.
Markers == { NoMarker, << DefaultVersion >>, << 0 >>, << 1 >> }

\* ------------------------------------------------------------------- Init
Init ==
  /\ order \in Orders
  /\ marker \in Markers
  /\ v = DefaultVersion
  /\ pc = "init"
  /\ state = [ OrderID |-> order.ID, Status |-> OrderStatusPending,
               ValidationDone |-> FALSE, ProcessingDone |-> FALSE,
               PaymentDone |-> FALSE, LastUpdated |-> 0 ]
  /\ cancelled = FALSE
  /\ expedited = FALSE
  /\ listener = "notstarted"
  /\ cancelChan = 0
  /\ expediteChan = 0
  /\ sent = 0
  /\ task = NoTask
  /\ calls = << >>
  /\ ppc = "idle"
  /\ authorizationID = NoID
  /\ transactionID = NoID
  /\ paymentResult = Fail(NoError)
  /\ err = NoError
  /\ result = NoResult
  /\ cancelledAt = "never"
  /\ lastOutcome = NoOutcome
  /\ now = 0
  /\ queryReply = NoReply

\* ---------------------------------------------------------------- signals
\* client.SignalWorkflow: the signal is buffered in its channel.
SendCancel ==
  /\ pc # "done"
  /\ queryReply' = NoReply
  /\ UNCHANGED lastOutcome
  /\ sent < MaxSignals
  /\ sent' = sent + 1
  /\ cancelChan' = cancelChan + 1
  /\ UNCHANGED << order, marker, v, pc, state, cancelled, expedited, listener,
                  expediteChan, task, calls, ppc, authorizationID,
                  transactionID, paymentResult, err, result, cancelledAt, now >>

SendExpedite ==
  /\ pc # "done"
  /\ queryReply' = NoReply
  /\ UNCHANGED lastOutcome
  /\ sent < MaxSignals
  /\ sent' = sent + 1
  /\ expediteChan' = expediteChan + 1
  /\ UNCHANGED << order, marker, v, pc, state, cancelled, expedited, listener,
                  cancelChan, task, calls, ppc, authorizationID,
                  transactionID, paymentResult, err, result, cancelledAt, now >>

\* ReceiveCancel without the break after Select.
ReceiveCancelNoBreak ==
  /\ listener = "waiting"
  /\ queryReply' = NoReply
  /\ UNCHANGED lastOutcome
  /\ pc # "done"
  /\ cancelChan > 0
  /\ cancelChan' = cancelChan - 1
  /\ now' = now + 1
  /\ cancelled' = TRUE
  /\ cancelledAt' = pc
  /\ state' = [ state EXCEPT !.Status = OrderStatusCancelled,
                             !.LastUpdated = now' ]
  /\ listener' = "waiting"
  /\ UNCHANGED << order, marker, v, pc, expedited, expediteChan, sent, task,
                  calls, ppc, authorizationID, transactionID, paymentResult,
                  err, result >>

\* One turn of the listener loop taking the cancel branch of the selector,
\* then the `if cancelled { break }' after Select.
ReceiveCancel ==
  /\ listener = "waiting"
  /\ queryReply' = NoReply
  /\ UNCHANGED lastOutcome
  /\ pc # "done"
  /\ cancelChan > 0
  /\ cancelChan' = cancelChan - 1
  /\ now' = now + 1
  /\ cancelled' = TRUE
  /\ cancelledAt' = pc
  /\ state' = [ state EXCEPT !.Status = OrderStatusCancelled,
                             !.LastUpdated = now' ]
  /\ listener' = IF cancelled' THEN "stopped" ELSE "waiting"
  /\ UNCHANGED << order, marker, v, pc, expedited, expediteChan, sent, task,
                  calls, ppc, authorizationID, transactionID, paymentResult,
                  err, result >>

\* ReceiveExpedite leaving LastUpdated as it was.
ReceiveExpediteNoStamp ==
  /\ listener = "waiting"
  /\ queryReply' = NoReply
  /\ UNCHANGED lastOutcome
  /\ pc # "done"
  /\ cancelChan = 0
  /\ expediteChan > 0
  /\ expediteChan' = expediteChan - 1
  /\ now' = now + 1
  /\ expedited' = TRUE
  /\ state' = [ state EXCEPT !.Status = OrderStatusExpedited ]
  /\ listener' = IF cancelled THEN "stopped" ELSE "waiting"
  /\ UNCHANGED << order, marker, v, pc, cancelled, cancelChan, sent, task,
                  calls, ppc, authorizationID, transactionID, paymentResult,
                  err, result, cancelledAt >>

\* One turn of the listener loop taking the expedite branch.  The selector
\* tries its branches in the order they were added, cancel first.
ReceiveExpedite ==
  /\ listener = "waiting"
  /\ queryReply' = NoReply
  /\ UNCHANGED lastOutcome
  /\ pc # "done"
  /\ cancelChan = 0
  /\ expediteChan > 0
  /\ expediteChan' = expediteChan - 1
  /\ now' = now + 1
  /\ expedited' = TRUE
  /\ state' = [ state EXCEPT !.Status = OrderStatusExpedited,
                             !.LastUpdated = now' ]
  /\ listener' = IF cancelled THEN "stopped" ELSE "waiting"
  /\ UNCHANGED << order, marker, v, pc, cancelled, cancelChan, sent, task,
                  calls, ppc, authorizationID, transactionID, paymentResult,
                  err, result, cancelledAt >>

\* ------------------------------------------------------------ OrderWorkflow
\* From the entry of OrderWorkflow to its first suspension point, the
\* dispatch of ValidateOrder.
Start ==
  /\ pc = "init"
  /\ queryReply' = NoReply
  /\ UNCHANGED lastOutcome
  /\ now' = now + 1
  /\ v' = GetVersion(marker, DefaultVersion, 1)
  /\ marker' = << v' >>
  /\ cancelled' = FALSE
  /\ expedited' = FALSE
  /\ listener' = "waiting"
  /\ state' = [ OrderID |-> order.ID, Status |-> OrderStatusPending,
                ValidationDone |-> FALSE, ProcessingDone |-> FALSE,
                PaymentDone |-> FALSE, LastUpdated |-> now' ]
  /\ ExecuteActivity("ValidateOrder",
                     IF expedited' THEN validateExpeditedOptions
                     ELSE activityOptions,
                     NoID)
  /\ pc' = "validate"
  /\ UNCHANGED << order, cancelChan, expediteChan, sent, ppc, authorizationID,
                  transactionID, paymentResult, err, result, cancelledAt >>

\* Return reporting success whatever the value.
ReturnNil(value) ==
  /\ pc' = "done"
  /\ result' = Success
  /\ task' = NoTask

\* `return err' / `return nil' of OrderWorkflow.
Return(value) ==
  /\ pc' = "done"
  /\ result' = value
  /\ task' = NoTask

\* CancelledRollback voiding the authorization instead of rolling back.
CancelledRollbackVoiding(st, at) ==
  /\ state' = st
  /\ ExecuteActivity("VoidAuthorization", voidOptions, authorizationID)
  /\ err' = << "order cancelled by user" >>
  /\ pc' = at
  /\ UNCHANGED ppc

\* Lines 137-144 and 177-184: the rollback of a cancelled order.
CancelledRollback(st, at) ==
  /\ state' = st
  /\ ExecuteActivity("RollbackOrder", rollbackOptions, NoID)
  /\ err' = << "order cancelled by user" >>
  /\ pc' = at
  /\ UNCHANGED ppc

\* BeginProcessing clearing the validation flag.
BeginProcessingResetting(st) ==
  /\ state' = [ st EXCEPT !.Status = OrderStatusProcessing,
                          !.ValidationDone = FALSE,
                          !.LastUpdated = now' ]
  /\ ExecuteActivity("ProcessOrder",
                     IF expedited THEN processExpeditedOptions
                     ELSE activityOptions,
                     NoID)
  /\ pc' = "process"
  /\ UNCHANGED << ppc, err >>

\* BeginProcessing ignoring the expedite flag.
BeginProcessingStandard(st) ==
  /\ state' = [ st EXCEPT !.Status = OrderStatusProcessing,
                          !.LastUpdated = now' ]
  /\ ExecuteActivity("ProcessOrder",
                     activityOptions,
                     NoID)
  /\ pc' = "process"
  /\ UNCHANGED << ppc, err >>

\* Lines 186-199: Step 3 up to the dispatch of ProcessOrder.
BeginProcessing(st) ==
  /\ state' = [ st EXCEPT !.Status = OrderStatusProcessing,
                          !.LastUpdated = now' ]
  /\ ExecuteActivity("ProcessOrder",
                     IF expedited THEN processExpeditedOptions
                     ELSE activityOptions,
                     NoID)
  /\ pc' = "process"
  /\ UNCHANGED << ppc, err >>

\* PostPaymentCheck without its cancellation check.
PostPaymentCheckUnchecked(st) == BeginProcessing(st)

\* Lines 176-184: the cancellation check after the payment step.
PostPaymentCheck(st) ==
  IF cancelled THEN CancelledRollback(st, "rollbackAfterPayment")
  ELSE BeginProcessing(st)

\* Lines 148-158: the child workflow is started and runs to its first
\* suspension point, the dispatch of AuthorizePayment.
BeginPayment(st) ==
  /\ state' = st
  /\ ppc' = "authorize"
  /\ ExecuteActivity("AuthorizePayment", paymentActivityOptions, NoID)
  /\ pc' = "payment"
  /\ UNCHANGED err

\* PaymentGate comparing against the wrong version.
PaymentGateFromZero(version) == version >= 0

\* PaymentGate opening one version late.
PaymentGateFromTwo(version) == version >= 2

\* Line 147: the gate of the payment step.
PaymentGate(version) == version >= 1

\* PostValidationCheck without its cancellation check.
PostValidationCheckUnchecked(st) ==
  IF PaymentGate(v) THEN BeginPayment(st)
  ELSE PostPaymentCheck(st)

\* PostValidationCheck with the payment step left out.
PostValidationCheckNoPayment(st) ==
  IF cancelled THEN CancelledRollback(st, "rollbackAfterValidation")
  ELSE PostPaymentCheck(st)

\* Lines 136-186: from the cancellation check after validation to the
\* next suspension point.
PostValidationCheck(st) ==
  IF cancelled THEN CancelledRollback(st, "rollbackAfterValidation")
  ELSE IF PaymentGate(v) THEN BeginPayment(st)
  ELSE PostPaymentCheck(st)

\* ValidationFailed compensating as the later failure paths do.
ValidationFailedWithRollback(r) ==
  /\ state' = [ state EXCEPT !.Status = OrderStatusFailed,
                             !.LastUpdated = now' ]
  /\ ExecuteActivity("RollbackOrder", activityOptions, NoID)
  /\ err' = << "validation failed" >> \o r.err
  /\ pc' = "notifyValidationFailed"
  /\ UNCHANGED ppc

\* ValidationFailed going on to the Process step.
ValidationFailedProceeds(r) ==
  /\ state' = [ state EXCEPT !.Status = OrderStatusProcessing,
                             !.LastUpdated = now' ]
  /\ ExecuteActivity("ProcessOrder", activityOptions, NoID)
  /\ pc' = "process"
  /\ UNCHANGED << ppc, err >>

\* Lines 120-126: the failure path of the Validate step up to the dispatch
\* of the notification.
ValidationFailed(r) ==
  /\ state' = [ state EXCEPT !.Status = OrderStatusFailed,
                             !.LastUpdated = now' ]
  /\ ExecuteActivity("NotifyCustomer", activityOptions,
                     << "Order validation failed" >>)
  /\ err' = << "validation failed" >> \o r.err
  /\ pc' = "notifyValidationFailed"
  /\ UNCHANGED ppc

\* Lines 119-134: ValidateOrder's future resolves.
ValidateOrderReturns ==
  /\ pc = "validate"
  /\ queryReply' = NoReply
  /\ now' = now + 1
  /\ \E r \in FutureResults(task) : Completes(r) /\
       IF ~r.ok
       THEN ValidationFailed(r)
       ELSE PostValidationCheck([ state EXCEPT
                                    !.ValidationDone = TRUE,
                                    !.Status = OrderStatusValidated,
                                    !.LastUpdated = now' ])
  /\ UNCHANGED << order, marker, v, cancelled, expedited, listener,
                  cancelChan, expediteChan, sent, authorizationID,
                  transactionID, paymentResult, result, cancelledAt >>

\* Lines 126-128: the notification's outcome is dropped.
NotifyValidationFailedReturns ==
  /\ pc = "notifyValidationFailed"
  /\ queryReply' = NoReply
  /\ now' = now + 1
  /\ \E r \in FutureResults(task) : Completes(r) /\ Return(err)
  /\ UNCHANGED << order, marker, v, state, cancelled, expedited, listener,
                  cancelChan, expediteChan, sent, calls, ppc,
                  authorizationID, transactionID, paymentResult, err, cancelledAt >>

\* Lines 142-143 and 182-183: the rollback's outcome is dropped.
CancelledRollbackReturns ==
  /\ pc \in { "rollbackAfterValidation", "rollbackAfterPayment" }
  /\ queryReply' = NoReply
  /\ now' = now + 1
  /\ \E r \in FutureResults(task) : Completes(r) /\ Return(err)
  /\ UNCHANGED << order, marker, v, state, cancelled, expedited, listener,
                  cancelChan, expediteChan, sent, calls, ppc,
                  authorizationID, transactionID, paymentResult, err, cancelledAt >>

\* PaymentFailed notifying where it is to roll back.
PaymentFailedNotifyFirst(r) ==
  /\ state' = [ state EXCEPT !.Status = OrderStatusFailed,
                             !.LastUpdated = now' ]
  /\ ExecuteActivity("NotifyCustomer", activityOptions,
                     << "Payment processing failed" >>)
  /\ err' = << "payment failed" >> \o r.err
  /\ pc' = "rollbackPaymentFailed"
  /\ UNCHANGED ppc

\* PaymentFailed notifying without rolling back first.
PaymentFailedNoRollback(r) ==
  /\ state' = [ state EXCEPT !.Status = OrderStatusFailed,
                             !.LastUpdated = now' ]
  /\ ExecuteActivity("NotifyCustomer", activityOptions,
                     << "Payment processing failed" >>)
  /\ err' = << "payment failed" >> \o r.err
  /\ pc' = "notifyPaymentFailed"
  /\ UNCHANGED ppc

\* Lines 160-165: the failure path of the payment step up to the dispatch
\* of the rollback.
PaymentFailed(r) ==
  /\ state' = [ state EXCEPT !.Status = OrderStatusFailed,
                             !.LastUpdated = now' ]
  /\ ExecuteActivity("RollbackOrder", activityOptions, NoID)
  /\ err' = << "payment failed" >> \o r.err
  /\ pc' = "rollbackPaymentFailed"
  /\ UNCHANGED ppc

\* Lines 158-173: the child workflow's future resolves.
PaymentWorkflowReturns ==
  /\ pc = "payment"
  /\ queryReply' = NoReply
  /\ UNCHANGED lastOutcome
  /\ ppc \in { "completed", "failed", "timedout" }
  /\ now' = now + 1
  /\ IF ~paymentResult.ok
     THEN PaymentFailed(paymentResult)
     ELSE PostPaymentCheck([ state EXCEPT !.PaymentDone = TRUE,
                                          !.LastUpdated = now' ])
  /\ UNCHANGED << order, marker, v, cancelled, expedited, listener,
                  cancelChan, expediteChan, sent, authorizationID,
                  transactionID, paymentResult, result, cancelledAt >>

\* Lines 165-166 and 206-207: rollback done (outcome dropped), notify.
FailureRollbackReturns ==
  /\ pc \in { "rollbackPaymentFailed", "rollbackProcessFailed" }
  /\ queryReply' = NoReply
  /\ now' = now + 1
  /\ \E r \in FutureResults(task) : Completes(r) /\
       ExecuteActivity("NotifyCustomer", activityOptions,
                       IF pc = "rollbackPaymentFailed"
                       THEN << "Payment processing failed" >>
                       ELSE << "Order processing failed" >>)
  /\ pc' = IF pc = "rollbackPaymentFailed" THEN "notifyPaymentFailed"
           ELSE "notifyProcessFailed"
  /\ UNCHANGED << order, marker, v, state, cancelled, expedited, listener,
                  cancelChan, expediteChan, sent, ppc, authorizationID,
                  transactionID, paymentResult, err, result, cancelledAt >>

\* Lines 166-168 and 207-209: the notification's outcome is dropped.
FailureNotifyReturns ==
  /\ pc \in { "notifyPaymentFailed", "notifyProcessFailed" }
  /\ queryReply' = NoReply
  /\ now' = now + 1
  /\ \E r \in FutureResults(task) : Completes(r) /\ Return(err)
  /\ UNCHANGED << order, marker, v, state, cancelled, expedited, listener,
                  cancelChan, expediteChan, sent, calls, ppc,
                  authorizationID, transactionID, paymentResult, err, cancelledAt >>

\* Lines 201-206: the failure path of the Process step up to the dispatch
\* of the rollback.
ProcessingFailed(r) ==
  /\ state' = [ state EXCEPT !.Status = OrderStatusFailed,
                             !.LastUpdated = now' ]
  /\ ExecuteActivity("RollbackOrder", activityOptions, NoID)
  /\ err' = << "processing failed" >> \o r.err
  /\ pc' = "rollbackProcessFailed"

\* Lines 199-227: ProcessOrder's future resolves.
ProcessOrderReturns ==
  /\ pc = "process"
  /\ queryReply' = NoReply
  /\ now' = now + 1
  /\ \E r \in FutureResults(task) : Completes(r) /\
       IF ~r.ok
       THEN ProcessingFailed(r)
       ELSE /\ state' = [ state EXCEPT !.ProcessingDone = TRUE,
                                       !.Status = OrderStatusCompleted,
                                       !.LastUpdated = now' ]
            /\ ExecuteActivity("NotifyCustomer", activityOptions,
                 IF expedited
                 THEN << "Your expedited order has been processed successfully" >>
                 ELSE << "Your order has been processed successfully" >>)
            /\ pc' = "notifyCompleted"
            /\ UNCHANGED err
  /\ UNCHANGED << order, marker, v, cancelled, expedited, listener,
                  cancelChan, expediteChan, sent, ppc, authorizationID,
                  transactionID, paymentResult, result, cancelledAt >>

\* NotifyCompletedReturns failing the workflow on a failed notification.
NotifyCompletedReturnsStrict ==
  /\ pc = "notifyCompleted"
  /\ queryReply' = NoReply
  /\ now' = now + 1
  /\ \E r \in FutureResults(task) : Completes(r) /\
       Return(IF r.ok THEN Success
              ELSE << "notification failed" >> \o r.err)
  /\ UNCHANGED << order, marker, v, state, cancelled, expedited, listener,
                  cancelChan, expediteChan, sent, calls, ppc,
                  authorizationID, transactionID, paymentResult, err, cancelledAt >>

\* Lines 227-234: a failed notification is only logged.
NotifyCompletedReturns ==
  /\ pc = "notifyCompleted"
  /\ queryReply' = NoReply
  /\ now' = now + 1
  /\ \E r \in FutureResults(task) : Completes(r) /\ Return(Success)
  /\ UNCHANGED << order, marker, v, state, cancelled, expedited, listener,
                  cancelChan, expediteChan, sent, calls, ppc,
                  authorizationID, transactionID, paymentResult, err, cancelledAt >>

\* ---------------------------------------------------------- PaymentWorkflow
\* `return "", err' / `return result, nil' of PaymentWorkflow.
PaymentReturn(position, r) ==
  /\ ppc' = position
  /\ paymentResult' = r
  /\ task' = NoTask
  /\ UNCHANGED calls

\* AuthorizePayment's future resolves.
AuthorizePaymentReturns ==
  /\ ppc = "authorize"
  /\ queryReply' = NoReply
  /\ \E r \in FutureResults(task) : Completes(r) /\
       IF ~r.ok
       THEN /\ PaymentReturn("failed",
                 Fail(<< "payment authorization failed" >> \o r.err))
            /\ UNCHANGED authorizationID
       ELSE /\ authorizationID' = r.value
            /\ ExecuteActivity("CapturePayment", paymentActivityOptions,
                               authorizationID')
            /\ ppc' = "capture"
            /\ UNCHANGED paymentResult
  /\ UNCHANGED << order, marker, v, pc, state, cancelled, expedited,
                  listener, cancelChan, expediteChan, sent, transactionID,
                  err, result, cancelledAt, now >>

\* CaptureFailed returning the capture failure without voiding.
CaptureFailedNoVoid(r) ==
  /\ PaymentReturn("failed", Fail(<< "payment capture failed" >> \o r.err))
  /\ UNCHANGED transactionID

\* The failure path of the capture step up to the dispatch of
\* VoidAuthorization; the wrapped capture error is kept for the return.
CaptureFailed(r) ==
  /\ ExecuteActivity("VoidAuthorization", voidOptions, authorizationID)
  /\ paymentResult' = Fail(<< "payment capture failed" >> \o r.err)
  /\ ppc' = "void"
  /\ UNCHANGED transactionID

\* CapturePayment's future resolves.
CapturePaymentReturns ==
  /\ ppc = "capture"
  /\ queryReply' = NoReply
  /\ \E r \in FutureResults(task) : Completes(r) /\
       IF ~r.ok
       THEN CaptureFailed(r)
       ELSE /\ transactionID' = r.value
            /\ PaymentReturn("completed",
                 Ok(<< "Payment processed successfully. Transaction ID:",
                       transactionID' >>))
  /\ UNCHANGED << order, marker, v, pc, state, cancelled, expedited,
                  listener, cancelChan, expediteChan, sent, authorizationID,
                  err, result, cancelledAt, now >>

\* VoidAuthorization's future resolves; its outcome is dropped and the
\* capture failure is returned.
VoidAuthorizationReturns ==
  /\ ppc = "void"
  /\ queryReply' = NoReply
  /\ \E r \in FutureResults(task) : Completes(r) /\ PaymentReturn("failed", paymentResult)
  /\ UNCHANGED << order, marker, v, pc, state, cancelled, expedited,
                  listener, cancelChan, expediteChan, sent, authorizationID,
                  transactionID, err, result, cancelledAt, now >>

\* WorkflowExecutionTimeout of the child: the server closes it wherever
\* it stands.
PaymentWorkflowTimeout ==
  /\ ppc \in { "authorize", "capture", "void" }
  /\ queryReply' = NoReply
  /\ UNCHANGED lastOutcome
  /\ PaymentReturn("timedout", Fail(<< "workflow execution timed out" >>))
  /\ UNCHANGED << order, marker, v, pc, state, cancelled, expedited,
                  listener, cancelChan, expediteChan, sent, authorizationID,
                  transactionID, err, result, cancelledAt, now >>

\* ------------------------------------------------------------------ query
\* QueryState with a handler that stamps the state it returns.
QueryStateStamping ==
  /\ pc \notin { "init", "done" }
  /\ queryReply' = << state >>
  /\ state' = [ state EXCEPT !.LastUpdated = now ]
  /\ UNCHANGED << order, marker, v, pc, cancelled, expedited, listener,
                  cancelChan, expediteChan, sent, task, calls, ppc,
                  authorizationID, transactionID, paymentResult, err, result,
                  cancelledAt, lastOutcome, now >>

\* Lines 36-42: the handler of the "state" query returns a copy of state.
\* It is registered before the first suspension point and runs between two
\* steps of the coroutines, whatever they are blocked on.
QueryState ==
  /\ pc \notin { "init", "done" }
  /\ queryReply' = << state >>
  /\ UNCHANGED << order, marker, v, pc, state, cancelled, expedited, listener,
                  cancelChan, expediteChan, sent, task, calls, ppc,
                  authorizationID, transactionID, paymentResult, err, result,
                  cancelledAt, lastOutcome, now >>

Next ==
  \/ QueryState
  \/ SendCancel
  \/ SendExpedite
  \/ ReceiveCancel
  \/ ReceiveExpedite
  \/ RetryActivity
  \/ Start
  \/ ValidateOrderReturns
  \/ NotifyValidationFailedReturns
  \/ CancelledRollbackReturns
  \/ PaymentWorkflowReturns
  \/ FailureRollbackReturns
  \/ FailureNotifyReturns
  \/ ProcessOrderReturns
  \/ NotifyCompletedReturns
  \/ AuthorizePaymentReturns
  \/ CapturePaymentReturns
  \/ VoidAuthorizationReturns
  \/ PaymentWorkflowTimeout

Spec == Init /\ [][Next]_vars

\* ---------------------------------------------------------------- fairness
\* The attempt in flight ends: it fails and is retried, or the future
\* resolves and the coroutine waiting for it runs on.
AttemptEnds ==
  \/ RetryActivity
  \/ ValidateOrderReturns
  \/ NotifyValidationFailedReturns
  \/ CancelledRollbackReturns
  \/ FailureRollbackReturns
  \/ FailureNotifyReturns
  \/ ProcessOrderReturns
  \/ NotifyCompletedReturns
  \/ AuthorizePaymentReturns
  \/ CapturePaymentReturns
  \/ VoidAuthorizationReturns

\* A coroutine that can run does run; every attempt ends, with success or
\* with failure; the timer of a child workflow that stays open fires.
\* Nothing makes clients send signals or queries.
Fairness ==
  /\ WF_vars(Start)
  /\ WF_vars(ReceiveCancel)
  /\ WF_vars(ReceiveExpedite)
  /\ WF_vars(AttemptEnds)
  /\ WF_vars(PaymentWorkflowReturns)
  /\ WF_vars(PaymentWorkflowTimeout)

FairSpec == Spec /\ Fairness

\* ------------------------------------------------ activities on their own
\* tests/payment_activities_test.go: a test environment executes one
\* activity at a time on inputs of its choosing and reads the result.  The
\* payment flow test feeds each id into the next activity.
\* The amounts of the tests, and 9999.50.
TestAmounts ==
  Amounts \cup { 49999 * Cents, 60000 * Cents, 9999 * Cents + 50 }

\* "order-002": an id that shares its first 8 characters with LongID.
SiblingID == << "o", "r", "d", "e", "r", "-", "0", "0", "2" >>

TestOrderIDs == OrderIDs \cup { SiblingID }

TestOrders == [ ID : TestOrderIDs, Amount : TestAmounts, Items : ItemLists ]

\* "TXN-12345", and an id no activity issued.
TestTransactionID == TxnPrefix \o << "1", "2", "3", "4", "5" >>
ForeignID == << "x" >>

TestAttempts == 1..StandardRetry.MaximumAttempts

TestMessages ==
  { << "" >>, << "Your order has been processed successfully" >> }

TestInit ==
  /\ order \in TestOrders
  /\ marker = NoMarker
  /\ v = DefaultVersion
  /\ pc = "init"
  /\ state = [ OrderID |-> order.ID, Status |-> OrderStatusPending,
               ValidationDone |-> FALSE, ProcessingDone |-> FALSE,
               PaymentDone |-> FALSE, LastUpdated |-> 0 ]
  /\ cancelled = FALSE
  /\ expedited = FALSE
  /\ listener = "notstarted"
  /\ cancelChan = 0
  /\ expediteChan = 0
  /\ sent = 0
  /\ task = NoTask
  /\ calls = << >>
  /\ ppc = "idle"
  /\ authorizationID = NoID
  /\ transactionID = NoID
  /\ paymentResult = Fail(NoError)
  /\ err = NoError
  /\ result = NoResult
  /\ cancelledAt = "never"
  /\ lastOutcome = NoOutcome
  /\ now = 0
  /\ queryReply = NoReply

\* env.ExecuteActivity(act, args...) and val.Get: one attempt runs to its
\* end; the test keeps the ids AuthorizePayment and CapturePayment return.
ExecuteTestActivity(name, arg, attempt) ==
  LET t == [ name |-> name, opts |-> activityOptions, arg |-> arg,
             attempt |-> attempt ]
  IN /\ task' = t
     /\ \E r \in AttemptResults(t) :
          /\ lastOutcome' = [ name |-> name, ok |-> r.ok,
                              attempts |-> attempt, err |-> r.err,
                              value |-> r.value,
                              policy |-> t.opts.RetryPolicy,
                              allOk |-> lastOutcome.allOk /\ r.ok ]
          /\ authorizationID' =
               IF name = "AuthorizePayment" /\ r.ok THEN r.value
               ELSE authorizationID
          /\ transactionID' =
               IF name = "CapturePayment" /\ r.ok THEN r.value
               ELSE transactionID
     /\ UNCHANGED << order, marker, v, pc, state, cancelled, expedited,
                     listener, cancelChan, expediteChan, sent, calls, ppc,
                     paymentResult, err, result, cancelledAt, now,
                     queryReply >>

TestAuthorizePayment ==
  \E attempt \in TestAttempts :
    ExecuteTestActivity("AuthorizePayment", NoID, attempt)

TestCapturePayment ==
  \E attempt \in TestAttempts :
    \E authID \in { NoID, ForeignID, authorizationID } :
      ExecuteTestActivity("CapturePayment", authID, attempt)

TestVoidAuthorization ==
  \E authID \in { NoID, ForeignID, authorizationID } :
    ExecuteTestActivity("VoidAuthorization", authID, 1)

TestRefundPayment ==
  \E attempt \in TestAttempts :
    \E txnID \in { NoID, TestTransactionID, transactionID } :
      \E amount \in { -100 * Cents, 0, order.Amount } :
        ExecuteTestActivity("RefundPayment",
                            [ TransactionID |-> txnID, Amount |-> amount ],
                            attempt)

\* The mock server sees the request the activity sends and answers as the
\* test case tells it to.
TestValidateOrder ==
  ExecuteTestActivity("ValidateOrder", ValidationRequest(order), 1)

TestProcessOrder == ExecuteTestActivity("ProcessOrder", NoID, 1)

TestNotifyCustomer ==
  \E message \in TestMessages :
    ExecuteTestActivity("NotifyCustomer", message, 1)

TestRollbackOrder == ExecuteTestActivity("RollbackOrder", NoID, 1)

TestNext ==
  \/ TestAuthorizePayment
  \/ TestCapturePayment
  \/ TestVoidAuthorization
  \/ TestRefundPayment
  \/ TestValidateOrder
  \/ TestProcessOrder
  \/ TestNotifyCustomer
  \/ TestRollbackOrder

ActivitySpec == TestInit /\ [][TestNext]_vars

\* ================================================================= claims
Invoked(name) ==
  Cardinality({ i \in 1..Len(calls) : calls[i].name = name })

LastCall == calls[Len(calls)]

ValidationFailurePath == err # NoError /\ Head(err) = "validation failed"

CancelPath == err = << "order cancelled by user" >>

FailurePath ==
  err # NoError /\ Head(err) \in { "payment failed", "processing failed" }

ValidateSucceeds == pc = "validate" /\ state'.ValidationDone

PaymentSucceeds == pc = "payment" /\ state'.PaymentDone

\* C1: a Cancel handled while ValidateOrder is in flight ends the process
\* with status Cancelled and exactly one RollbackOrder.
C1_CancelDuringValidate ==
  (pc = "done" /\ cancelledAt = "validate") =>
    /\ state.Status = OrderStatusCancelled
    /\ Invoked("RollbackOrder") = 1

\* C2: a Cancel handled after status Completed has no effect: the final
\* status is Completed, nothing is rolled back and run returns success.
C2_CancelAfterCompleted ==
  (pc = "done" /\ cancelledAt = "notifyCompleted") =>
    /\ state.Status = OrderStatusCompleted
    /\ Invoked("RollbackOrder") = 0
    /\ result = Success

StatusRank(s) ==
  CASE s = OrderStatusPending -> 0
    [] s = OrderStatusValidated -> 1
    [] s = OrderStatusProcessing -> 2
    [] s = OrderStatusCompleted -> 3

ForwardStatuses ==
  { OrderStatusPending, OrderStatusValidated, OrderStatusProcessing,
    OrderStatusCompleted }

\* C3: status only moves forward along Pending, Validated, Processing,
\* Completed, and Cancelled and Failed are absorbing.
C3_StatusMonotone ==
  [][ /\ state.Status \in { OrderStatusCancelled, OrderStatusFailed } =>
           state'.Status = state.Status
      /\ (state.Status \in ForwardStatuses /\ state'.Status \in ForwardStatuses)
           => StatusRank(state'.Status) >= StatusRank(state.Status) ]_vars

\* C4: status is Pending at the start and one of Completed, Cancelled,
\* Failed when run returns.
C4_TerminalStatus ==
  /\ pc = "init" => state.Status = OrderStatusPending
  /\ pc = "done" => state.Status \in { OrderStatusCompleted,
                                       OrderStatusCancelled,
                                       OrderStatusFailed }

\* C5: when the Validate step fails, status is set to Failed, NotifyCustomer
\* is invoked, run returns the failure, and RollbackOrder, the payment
\* subprocess and ProcessOrder are never invoked.
C5_ValidationFailure ==
  /\ [](ValidationFailurePath =>
          /\ pc \in { "notifyValidationFailed", "done" }
          /\ Invoked("NotifyCustomer") = 1
          /\ LastCall.name = "NotifyCustomer"
          /\ Invoked("RollbackOrder") = 0
          /\ Invoked("ProcessOrder") = 0
          /\ Invoked("AuthorizePayment") = 0
          /\ ppc = "idle"
          /\ pc = "done" => (result = err /\ result # Success))
  /\ [][ (pc = "validate" /\ ~state'.ValidationDone /\ pc' # pc) =>
           /\ ValidationFailurePath'
           /\ state'.Status = OrderStatusFailed ]_vars

C5_Witness == pc = "done" /\ ValidationFailurePath

\* C6: at each cancellation check, a set cancel flag leads to exactly one
\* RollbackOrder, a "cancelled" failure and no later step; an unset flag
\* lets the sequence continue with the next step.
C6_CancellationChecks ==
  /\ [](CancelPath =>
          /\ pc \in { "rollbackAfterValidation", "rollbackAfterPayment",
                      "done" }
          /\ Invoked("RollbackOrder") = 1
          /\ LastCall.name = "RollbackOrder"
          /\ Invoked("ProcessOrder") = 0
          /\ Invoked("NotifyCustomer") = 0
          /\ Invoked("AuthorizePayment") = 0 => ppc = "idle"
          /\ pc = "done" => result = << "order cancelled by user" >>)
  /\ [][ /\ ValidateSucceeds =>
              IF cancelled
              THEN pc' = "rollbackAfterValidation" /\ CancelPath'
              ELSE pc' \in { "payment", "process" } /\ ~CancelPath'
         /\ PaymentSucceeds =>
              IF cancelled
              THEN pc' = "rollbackAfterPayment" /\ CancelPath'
              ELSE pc' = "process" /\ ~CancelPath' ]_vars

C6_Witness ==
  /\ pc = "done"
  /\ CancelPath
  /\ cancelledAt = "payment"
  /\ Invoked("CapturePayment") = 1

\* C7: when the payment subprocess or the Process step fails, status is set
\* to Failed, then RollbackOrder and then NotifyCustomer are invoked, once
\* each, run returns the failure and no later forward step is started.
C7_FailureCompensation ==
  /\ [](FailurePath =>
          /\ pc \in { "rollbackPaymentFailed", "rollbackProcessFailed",
                      "notifyPaymentFailed", "notifyProcessFailed", "done" }
          /\ Invoked("RollbackOrder") = 1
          /\ pc \in { "rollbackPaymentFailed", "rollbackProcessFailed" } =>
               /\ LastCall.name = "RollbackOrder"
               /\ Invoked("NotifyCustomer") = 0
          /\ pc \in { "notifyPaymentFailed", "notifyProcessFailed", "done" } =>
               /\ Invoked("NotifyCustomer") = 1
               /\ LastCall.name = "NotifyCustomer"
               /\ calls[Len(calls) - 1].name = "RollbackOrder"
               /\ LastCall.arg \in { << "Payment processing failed" >>,
                                     << "Order processing failed" >> }
          /\ Head(err) = "payment failed" => Invoked("ProcessOrder") = 0
          /\ Head(err) = "processing failed" => Invoked("ProcessOrder") = 1
          /\ pc = "done" => (result = err /\ result # Success))
  /\ [][ /\ (pc = "payment" /\ pc' # pc /\ ~state'.PaymentDone) =>
              /\ FailurePath'
              /\ state'.Status = OrderStatusFailed
         /\ (pc = "process" /\ pc' # pc /\ ~state'.ProcessingDone) =>
              /\ FailurePath'
              /\ state'.Status = OrderStatusFailed ]_vars

C7_Witness ==
  /\ pc = "done"
  /\ FailurePath
  /\ Head(err) = "payment failed"

TargetVersions == { 1, 2 }

BelowPaymentVersion == marker # NoMarker /\ marker[1] < 1

\* C8: a process whose recorded version marker is below 1 never invokes the
\* payment subprocess, whatever target the code requests, and goes from the
\* post-validation check straight to the Process step.
C8_NoPaymentBelowVersion ==
  /\ [](BelowPaymentVersion =>
          /\ \A target \in TargetVersions :
               ~PaymentGate(GetVersion(marker, DefaultVersion, target))
          /\ pc # "init" => ~PaymentGate(v)
          /\ ppc = "idle"
          /\ pc # "payment"
          /\ Invoked("AuthorizePayment") = 0
          /\ Invoked("CapturePayment") = 0
          /\ Invoked("VoidAuthorization") = 0)
  /\ [][ (BelowPaymentVersion /\ ValidateSucceeds /\ ~cancelled) =>
           pc' = "process" ]_vars

C8_Witness ==
  /\ BelowPaymentVersion
  /\ pc = "done"
  /\ result = Success

\* C9 as stated: a process whose recorded version marker is 1 has started
\* the payment subprocess by the time it terminates.
C9_AlwaysPayment ==
  (pc = "done" /\ marker = << 1 >>) => ppc # "idle"

\* C9 amended: a process whose recorded version marker is 1 starts the
\* payment subprocess exactly when ValidateOrder succeeded and the cancel
\* flag was unset at the post-validation check.
C9_PaymentWhenReached ==
  (marker = << 1 >> /\ pc # "init") =>
    (ppc # "idle" <=> (state.ValidationDone /\ cancelledAt # "validate"))

C9_Witness ==
  /\ marker = << 1 >>
  /\ pc = "done"
  /\ ppc = "completed"

CaptureFailure ==
  paymentResult.err # NoError
    /\ Head(paymentResult.err) = "payment capture failed"

AuthorizeFailure ==
  paymentResult.err # NoError
    /\ Head(paymentResult.err) = "payment authorization failed"

VoidedAfterCapture ==
  \E i \in 2..Len(calls) :
    /\ calls[i].name = "VoidAuthorization"
    /\ calls[i].arg = authorizationID
    /\ calls[i - 1].name = "CapturePayment"

SuccessMessages ==
  { << "Your order has been processed successfully" >>,
    << "Your expedited order has been processed successfully" >> }

SuccessNotified ==
  \E i \in 1..Len(calls) :
    calls[i].name = "NotifyCustomer" /\ calls[i].arg \in SuccessMessages

CancelHandled == ~cancelled /\ cancelled'

\* C11 as stated: a Cancel observed before status Completed has been set
\* (while ValidateOrder, the payment subprocess or ProcessOrder is in
\* flight) keeps the next step from starting and invokes RollbackOrder.
C11_CancelStopsNextStep ==
  (pc = "done" /\ cancelledAt \in { "validate", "payment", "process" }) =>
    /\ Invoked("RollbackOrder") >= 1
    /\ ~SuccessNotified

\* C11 amended: handling a Cancel never touches the task in flight; a
\* Cancel handled while ValidateOrder or the payment subprocess is in
\* flight keeps every later forward step from starting and leads to one
\* RollbackOrder unless ValidateOrder itself fails; a Cancel handled once
\* ProcessOrder has been dispatched neither stops the sequence nor rolls
\* back when ProcessOrder succeeds.
C11_CooperativeCancel ==
  /\ [][ CancelHandled =>
           /\ task' = task
           /\ calls' = calls
           /\ pc' = pc
           /\ ppc' = ppc ]_vars
  /\ [](cancelledAt \in { "validate", "payment" } =>
          /\ Invoked("ProcessOrder") = 0
          /\ ~SuccessNotified
          /\ cancelledAt = "validate" => ppc = "idle"
          /\ (pc = "done" /\ ~ValidationFailurePath) =>
               Invoked("RollbackOrder") = 1)
  /\ []((cancelledAt \in { "process", "notifyCompleted" }
           /\ state.ProcessingDone) =>
          /\ Invoked("RollbackOrder") = 0
          /\ SuccessNotified
          /\ pc = "done" => result = Success)

C11_Witness ==
  /\ pc = "done"
  /\ cancelledAt = "process"
  /\ result = Success

\* C12: ValidateOrder is dispatched under the expedited policy when an
\* Expedite signal was sent before the Validate step begins, and under the
\* standard policy otherwise.
C12_ExpediteBeforeValidate ==
  [][ (pc = "init" /\ pc' = "validate") =>
        /\ LastCall'.name = "ValidateOrder"
        /\ LastCall'.opts = IF expediteChan > 0 THEN validateExpeditedOptions
                            ELSE activityOptions ]_vars

\* C13: ProcessOrder is dispatched under the expedited options exactly
\* when the expedite flag is set as the Process step begins, and an
\* Expedite handled while a task is in flight leaves that task's options
\* as they were.
C13_ProcessPolicy ==
  /\ [][ (pc # "process" /\ pc' = "process") =>
           /\ task'.name = "ProcessOrder"
           /\ task'.opts = IF expedited THEN processExpeditedOptions
                           ELSE activityOptions
           /\ LastCall'.opts = task'.opts ]_vars
  /\ [][ (task.name # "none" /\ expedited' # expedited) =>
           /\ task' = task
           /\ calls' = calls ]_vars

C13_Witness ==
  /\ pc = "process"
  /\ expedited
  /\ task.opts = activityOptions

ExpeditedProfiles == { validateExpeditedOptions, processExpeditedOptions }

NoMorePermissive(policy) ==
  /\ policy.MaximumAttempts # 0
  /\ policy.MaximumAttempts < StandardRetry.MaximumAttempts
  /\ policy.InitialInterval <= StandardRetry.InitialInterval
  /\ policy.MaximumInterval <= StandardRetry.MaximumInterval

\* C14: every task dispatched under the expedited profile has fewer
\* maximum attempts than the standard profile and backoff intervals no
\* longer than the standard ones.
C14_ExpeditedNotMorePermissive ==
  \A i \in 1..Len(calls) :
    calls[i].opts \in ExpeditedProfiles =>
      NoMorePermissive(calls[i].opts.RetryPolicy)

\* C15: handling a second or later Expedite signal leaves the expedited
\* flag and the whole WorkflowState as they were.
C15_ExpediteIdempotent ==
  [][ (expedited /\ expediteChan' < expediteChan) =>
        /\ expedited' = expedited
        /\ state' = state ]_vars

\* C16: once the listener has consumed a Cancel it has stopped; no signal
\* is taken from the channels afterwards and the flags and the
\* WorkflowState change no more on account of a signal.
C16_ListenerStopsOnCancel ==
  /\ [](pc # "init" => (cancelled <=> listener = "stopped"))
  /\ [][ listener = "stopped" =>
           /\ listener' = "stopped"
           /\ cancelled' = cancelled
           /\ expedited' = expedited
           /\ cancelChan' >= cancelChan
           /\ expediteChan' >= expediteChan
           /\ state' # state => pc' # pc ]_vars

C16_Witness ==
  /\ listener = "stopped"
  /\ expediteChan > 0
  /\ ~expedited
  /\ pc = "done"

CompensationPositions ==
  { "notifyValidationFailed", "rollbackAfterValidation",
    "rollbackAfterPayment", "rollbackPaymentFailed", "rollbackProcessFailed",
    "notifyPaymentFailed", "notifyProcessFailed" }

\* C17: the value run returns does not depend on how a notification or a
\* compensation ends: success once ProcessOrder succeeded, else the failure
\* fixed before the compensations began.
C17_ReturnIgnoresCompensation ==
  /\ [](pc = "done" =>
          result = IF state.ProcessingDone THEN Success ELSE err)
  /\ [](pc \in CompensationPositions => err # NoError)
  /\ [][ (pc \in CompensationPositions \cup { "notifyCompleted" }) =>
           err' = err ]_vars

C17_Witness ==
  /\ pc = "done"
  /\ result = Success
  /\ lastOutcome.name = "NotifyCustomer"
  /\ ~lastOutcome.ok

RejectionErrors ==
  { << "order validation failed", "Order amount exceeds limit" >>,
    << "invalid payment amount" >>,
    << "payment amount exceeds authorization limit" >>,
    << "order amount mismatch" >> }

\* C18: a step that fails with a validation-rejected error was attempted
\* exactly once.
C18_RejectionNotRetried ==
  (~lastOutcome.ok /\ lastOutcome.err \in RejectionErrors) =>
    lastOutcome.attempts = 1

\* C19: ProcessOrder succeeds exactly when the line items sum to the
\* declared amount, fails with an amount mismatch otherwise, and a process
\* whose ProcessOrder met a mismatch ends with status Failed.
C19_ProcessSumCheck ==
  /\ pc = "process" =>
       /\ ProcessOrder(order).ok <=> SumItems(order.Items) = order.Amount
       /\ ~ProcessOrder(order).ok =>
            ProcessOrder(order).err = << "order amount mismatch" >>
  /\ (lastOutcome.name = "ProcessOrder" /\ lastOutcome.ok) =>
       SumItems(order.Items) = order.Amount
  /\ (pc = "done" /\ Invoked("ProcessOrder") = 1
        /\ SumItems(order.Items) # order.Amount) =>
       state.Status = OrderStatusFailed

\* C20: AuthorizePayment fails for amount <= 0 and for amount above the
\* ceiling, and succeeds with a non-empty id for every other amount.
C20_AuthorizeByAmount ==
  ppc = "authorize" =>
    LET r == AuthorizePayment(order, task.attempt)
    IN /\ r.ok <=> (order.Amount > 0 /\ order.Amount <= AuthorizationLimit * Cents)
       /\ r.ok => r.value # NoID

\* s contains sub as a substring.
Contains(s, sub) ==
  \E i \in 0..(Len(s) - Len(sub)) : SubSeq(s, i + 1, i + Len(sub)) = sub

\* The last attempt was cut off by its context instead of running to its end.
CutOff == lastOutcome.err = << "context deadline exceeded" >>

\* C21: AuthorizePayment accepts amount 49999 with an id containing "AUTH-"
\* and rejects amount 60000 as exceeding the authorization limit.
C21_CeilingAtLeast49999 ==
  (/\ lastOutcome.name = "AuthorizePayment"
   /\ ~CutOff
   /\ Len(order.ID) >= IDPrefixLen) =>
    /\ order.Amount = 49999 * Cents =>
         /\ lastOutcome.ok
         /\ Contains(lastOutcome.value, AuthPrefix)
    /\ order.Amount = 60000 * Cents =>
         /\ ~lastOutcome.ok
         /\ lastOutcome.err = << "payment amount exceeds authorization limit" >>

\* C22: CapturePayment fails with "invalid authorization ID" exactly when
\* the authorization id is empty, and for every non-empty one returns a
\* non-empty id containing "TXN-".
C22_CaptureByAuthorizationID ==
  (lastOutcome.name = "CapturePayment" /\ ~CutOff) =>
    /\ (/\ ~lastOutcome.ok
        /\ lastOutcome.err = << "invalid authorization ID" >>)
         <=> task.arg = NoID
    /\ task.arg # NoID =>
         /\ lastOutcome.ok
         /\ lastOutcome.value # NoID
         /\ Contains(lastOutcome.value, TxnPrefix)

\* The payment flow of the tests got as far as a refund of the captured
\* transaction.
FlowRefunded ==
  /\ lastOutcome.name = "RefundPayment"
  /\ lastOutcome.ok
  /\ authorizationID # NoID
  /\ transactionID # NoID
  /\ task.arg.TransactionID = transactionID

\* C23: within one payment flow the authorization id, the transaction id
\* and the refund id are pairwise distinct.
C23_FlowIDsDistinct ==
  /\ (authorizationID # NoID /\ transactionID # NoID) =>
       authorizationID # transactionID
  /\ FlowRefunded =>
       /\ authorizationID # lastOutcome.value
       /\ transactionID # lastOutcome.value

C23_Witness == FlowRefunded /\ task.arg.Amount = 2500 * Cents

\* The answers ValidateOrder is to accept.
Accepted(answer) ==
  answer.StatusCode = 200 /\ answer.Decodable /\ answer.Valid

\* C24: ValidateOrder sends a POST to /validate with the order's id and
\* amount; it succeeds exactly on a 200 answer with valid=true, names the
\* status code of a non-200 answer, and reports valid=false as "validation
\* failed" with the service's message.
C24_ValidateOrderContract ==
  lastOutcome.name = "ValidateOrder" =>
    /\ task.arg.Method = "POST"
    /\ task.arg.Path = "/validate"
    /\ task.arg.OrderID = order.ID
    /\ task.arg.Amount = order.Amount
    /\ \A answer \in ServiceAnswers :
         LET r == ValidateOrder(order, answer)
         IN /\ r.ok <=> Accepted(answer)
            /\ answer.StatusCode = 500 =>
                 Len(r.err) >= 2 /\ r.err[2] = "status 500"
            /\ answer.StatusCode = 502 =>
                 Len(r.err) >= 2 /\ r.err[2] = "status 502"
            /\ (/\ answer.StatusCode = 200
                /\ answer.Decodable
                /\ ~answer.Valid) =>
                 r.err = << "order validation failed", answer.Message >>
    /\ \/ CutOff
       \/ \E answer \in ServiceAnswers :
            /\ lastOutcome.ok = Accepted(answer)
            /\ lastOutcome.err = ValidateOrder(order, answer).err

C24_Witness ==
  /\ lastOutcome.name = "ValidateOrder"
  /\ ~lastOutcome.ok
  /\ Head(lastOutcome.err) = "validation service returned"

UnvalidatedActivities ==
  { "VoidAuthorization", "RefundPayment", "NotifyCustomer", "RollbackOrder" }

\* C25: VoidAuthorization, RefundPayment, NotifyCustomer and RollbackOrder
\* succeed for every input when not cut off, and RefundPayment returns a
\* non-empty id containing "REFUND-".
C25_NoInputValidation ==
  (lastOutcome.name \in UnvalidatedActivities /\ ~CutOff) =>
    /\ lastOutcome.ok
    /\ lastOutcome.name = "RefundPayment" =>
         /\ lastOutcome.value # NoID
         /\ Contains(lastOutcome.value, RefundPrefix)

C25_Witness ==
  /\ lastOutcome.name = "RefundPayment"
  /\ lastOutcome.ok
  /\ task.arg.TransactionID = NoID
  /\ task.arg.Amount = -100 * Cents
  /\ order.Amount = 0

HappyPath ==
  << "ValidateOrder", "AuthorizePayment", "CapturePayment", "ProcessOrder",
     "NotifyCustomer" >>

\* Version 1, no signal sent, every activity future so far resolved with
\* success and the payment subprocess not timed out.
AllSucceeding ==
  /\ pc # "init"
  /\ v = 1
  /\ sent = 0
  /\ lastOutcome.allOk
  /\ ppc # "timedout"

\* C26: with version 1, no signals and every task succeeding, the process
\* dispatches ValidateOrder, AuthorizePayment, CapturePayment, ProcessOrder
\* and NotifyCustomer once each in that order and nothing else, notifies
\* "processed successfully", ends Completed with all flags set and returns
\* success.
C26_HappyPath ==
  AllSucceeding =>
    /\ Len(calls) <= Len(HappyPath)
    /\ \A i \in 1..Len(calls) : calls[i].name = HappyPath[i]
    /\ pc = "done" =>
         /\ Len(calls) = Len(HappyPath)
         /\ LastCall.arg = << "Your order has been processed successfully" >>
         /\ state.Status = OrderStatusCompleted
         /\ state.ValidationDone
         /\ state.PaymentDone
         /\ state.ProcessingDone
         /\ result = Success

C26_Witness == AllSucceeding /\ pc = "done" /\ lastOutcome.attempts = 2

QueryIssued == queryReply' # NoReply

\* C27: while the process is live a state query can always be answered,
\* the answer is the current state, and answering changes nothing else.
C27_QueryReadOnly ==
  /\ [](pc \notin { "init", "done" } => ENABLED QueryState)
  /\ [][ QueryIssued =>
           /\ queryReply' = << state >>
           /\ UNCHANGED << order, marker, v, pc, state, cancelled, expedited,
                           listener, cancelChan, expediteChan, sent, task,
                           calls, ppc, authorizationID, transactionID,
                           paymentResult, err, result, cancelledAt,
                           lastOutcome, now >> ]_vars

C27_Witness ==
  /\ queryReply = << state >>
  /\ ppc = "capture"
  /\ task.attempt = 2
  /\ state.Status = OrderStatusExpedited

Dispatches == Len(calls') = Len(calls) + 1

\* The step resolves the future of the task in flight.
Resolves ==
  /\ lastOutcome'.name = task.name
  /\ lastOutcome'.attempts = task.attempt

\* C28: a task is dispatched only in a step that starts with no task in
\* flight or that takes the result of the one in flight; CapturePayment
\* only on AuthorizePayment's success; ProcessOrder only after ValidateOrder
\* and, when gated in, the payment subprocess succeeded.
C28_StrictlySequential ==
  /\ [][ Dispatches =>
           /\ task.name # "none" => Resolves
           /\ LastCall'.name = task'.name
           /\ LastCall'.name = "CapturePayment" =>
                /\ task.name = "AuthorizePayment"
                /\ lastOutcome'.ok
           /\ LastCall'.name = "ProcessOrder" =>
                /\ state'.ValidationDone
                /\ Invoked("ValidateOrder") = 1
                /\ PaymentGate(v) =>
                     /\ state'.PaymentDone
                     /\ ppc = "completed"
                     /\ paymentResult.ok ]_vars
  /\ [](ppc \in { "authorize", "capture", "void" } => pc = "payment")
  /\ [](task.name = "ProcessOrder" => pc = "process")

C28_Witness ==
  /\ pc = "process"
  /\ task.name = "ProcessOrder"
  /\ ppc = "completed"
  /\ cancelled

StandardTasks ==
  { "ValidateOrder", "AuthorizePayment", "CapturePayment", "NotifyCustomer" }

C30_FiniteRetryEverywhere ==
  \A i \in 1..Len(calls) :
    /\ calls[i].opts.StartToCloseTimeout > 0
    /\ calls[i].opts.RetryPolicy.MaximumAttempts > 0

\* The step changes the status or a completion flag.
StateChanged ==
  \/ state'.Status # state.Status
  \/ state'.ValidationDone # state.ValidationDone
  \/ state'.PaymentDone # state.PaymentDone
  \/ state'.ProcessingDone # state.ProcessingDone

\* C31: a step that changes the status or a completion flag sets
\* LastUpdated to the time of that step, and LastUpdated never runs ahead.
C31_LastUpdatedStamped ==
  /\ [][ StateChanged => state'.LastUpdated = now' ]_vars
  /\ [](state.LastUpdated <= now)

C31_Witness ==
  /\ state.Status = OrderStatusExpedited
  /\ state.PaymentDone
  /\ state.LastUpdated = now
  /\ pc = "process"

\* C32: no completion flag is ever cleared; PaymentDone implies
\* ValidationDone; ProcessingDone implies ValidationDone and, from version
\* 1 on, PaymentDone; status Completed implies ProcessingDone; below
\* version 1 PaymentDone stays false.
C32_FlagsConsistent ==
  /\ [][ /\ state.ValidationDone => state'.ValidationDone
         /\ state.PaymentDone => state'.PaymentDone
         /\ state.ProcessingDone => state'.ProcessingDone ]_vars
  /\ [](state.PaymentDone => state.ValidationDone)
  /\ [](state.ProcessingDone =>
          /\ state.ValidationDone
          /\ v >= 1 => state.PaymentDone)
  /\ [](state.Status = OrderStatusCompleted => state.ProcessingDone)
  /\ [](v < 1 => ~state.PaymentDone)

C32_Witness ==
  /\ state.Status = OrderStatusCompleted
  /\ v = 0
  /\ pc = "notifyCompleted"

\* C33: RollbackOrder is dispatched at most once and NotifyCustomer at most
\* once, and RollbackOrder only after ValidateOrder succeeded.
C33_CompensationOnce ==
  /\ Invoked("RollbackOrder") <= 1
  /\ Invoked("NotifyCustomer") <= 1
  /\ Invoked("RollbackOrder") = 1 =>
       /\ state.ValidationDone
       /\ calls[1].name = "ValidateOrder"

C33_Witness ==
  /\ pc = "done"
  /\ Invoked("RollbackOrder") = 1
  /\ Invoked("NotifyCustomer") = 1
  /\ Head(err) = "processing failed"
  /\ state.PaymentDone

\* C34: the workflow returns success exactly when ValidateOrder succeeded,
\* no Cancel had been handled by the check after validation, the payment
\* subprocess succeeded from version 1 on, no Cancel had been handled by
\* the check after payment, and ProcessOrder succeeded; once ProcessOrder
\* is in flight only its outcome decides.
C34_ReturnsSuccessIff ==
  /\ [](pc = "done" =>
          (result = Success <=>
             /\ state.ValidationDone
             /\ cancelledAt # "validate"
             /\ v >= 1 => (ppc = "completed" /\ paymentResult.ok)
             /\ cancelledAt # "payment"
             /\ state.ProcessingDone))
  /\ [][ (pc = "process" /\ pc' # pc) =>
           (pc' = "notifyCompleted" <=> lastOutcome'.ok) ]_vars
  /\ [][ (pc = "notifyCompleted" /\ pc' # pc) =>
           (pc' = "done" /\ result' = Success) ]_vars

C34_Witness ==
  /\ pc = "done"
  /\ result = Success
  /\ cancelledAt = "notifyCompleted"
  /\ ~lastOutcome.ok

\* C35: RefundPayment is never dispatched; VoidAuthorization only right
\* after CapturePayment, with no transaction captured; a process that
\* fails after the payment was done runs RollbackOrder and no void.
C35_NoRefundNoLateVoid ==
  /\ Invoked("RefundPayment") = 0
  /\ \A i \in 1..Len(calls) :
       calls[i].name = "VoidAuthorization" =>
         /\ i > 1
         /\ calls[i - 1].name = "CapturePayment"
         /\ transactionID = NoID
         /\ ~state.PaymentDone
  /\ (pc = "done" /\ state.PaymentDone /\ result # Success) =>
       /\ Invoked("VoidAuthorization") = 0
       /\ Invoked("RollbackOrder") = 1
       /\ transactionID # NoID

C35_Witness ==
  /\ pc = "done"
  /\ state.PaymentDone
  /\ CancelPath
  /\ transactionID # NoID
  /\ LastCall.name = "RollbackOrder"

\* C36: under fair scheduling, with every attempt returning, the process
\* eventually returns.
C36_Terminates == <>(pc = "done")

\* C37: an amount the validation service accepts is authorized.
C37_ValidatedAmountAuthorized ==
  (/\ lastOutcome.name = "AuthorizePayment"
   /\ ~CutOff
   /\ Len(order.ID) >= IDPrefixLen
   /\ ValidationServiceAccepts(order.Amount)) =>
    lastOutcome.ok

PaymentIDActivities == { "AuthorizePayment", "CapturePayment" }

\* C38: AuthorizePayment and CapturePayment end with an id or an error of
\* their own for every order; building the id never aborts the attempt.
C38_NoSliceAbort ==
  lastOutcome.name \in PaymentIDActivities =>
    /\ lastOutcome.err # << "panic: slice bounds out of range" >>
    /\ lastOutcome.ok => lastOutcome.value # NoID

\* C39: the id AuthorizePayment or CapturePayment returned for this order
\* is returned for no order with another identifier.
C39_IDsUniquePerOrder ==
  (lastOutcome.name \in PaymentIDActivities /\ lastOutcome.ok) =>
    \A o \in TestOrders : \A attempt \in TestAttempts :
      LET r == IF lastOutcome.name = "AuthorizePayment"
               THEN AuthorizePayment(o, attempt)
               ELSE CapturePayment(o, task.arg, attempt)
      IN (o.ID # order.ID /\ r.ok) => r.value # lastOutcome.value

====
